---- MODULE Spec2Model ----
(***************************************************************************)
(* A model of the VAD plugins of volatility/plugins/windows/vadinfo.py:    *)
(* vadinfo (VADInfo.render), vadtree (VADTree.render), vadwalk             *)
(* (VADWalk.render) and vaddump (VADDump.__init__, VADDump.render), run    *)
(* over a memory snapshot whose VAD records may be corrupt.                *)
(***************************************************************************)
EXTENDS Integers, Sequences, FiniteSets, TLC

\* ------------------------------------------------------------------ bounds
NumNodes == 3      \* VAD records in the snapshot's arena (offsets 1..NumNodes)
NumTasks == 2      \* processes yielded by filter_processes()
MaxVisited == 5    \* the walker's cap on visited references
PageSize == 2      \* bytes per page of the scaled-down address space
MaxAddr == 3       \* highest virtual address of the scaled-down address space
ExtraCodes == 2    \* codes past the end of a decoding table that are tried

Nodes == 1..NumNodes
Refs == 0..NumNodes          \* 0 is the null reference
Tasks == 1..NumTasks
Addrs == 0..MaxAddr
Pages == 0..(MaxAddr \div PageSize)

Max(a, b) == IF a >= b THEN a ELSE b

\* ---------------------------------------------------------------- snapshot
\* A record of the snapshot: the fields of one _MMVAD the plugins read.
\*   present: the reference materializes (vad.dereference() is truthy)
\*   tagOK:   the tag selects a typed record (obj_type is not "_MMVAD")
VadRecord(l, r, p, s, e) ==
  [LeftChild |-> l, RightChild |-> r, Parent |-> p, present |-> TRUE,
   tagOK |-> TRUE, Start |-> s, End |-> e]

\* The region a well-formed record n describes: one page of its own.
StdStart(n) == (n - 1) * PageSize
StdEnd(n) == n * PageSize - 1

\* Shapes: parent link and side of every node but the root (node 1); 0 = the
\* record is not part of the tree.
ShapeCandidates ==
  [par : [Nodes \ {1} -> 0..(NumNodes - 1)], side : [Nodes \ {1} -> {"L", "R"}]]

ChildOf(sh, n, s) ==
  LET c == {m \in Nodes \ {1} : sh.par[m] = n /\ sh.side[m] = s}
  IN  IF c = {} THEN 0 ELSE CHOOSE m \in c : TRUE

RECURSIVE ShapePre(_, _)
ShapePre(sh, n) ==
  IF n = 0 THEN <<>>
  ELSE <<n>> \o ShapePre(sh, ChildOf(sh, n, "L")) \o ShapePre(sh, ChildOf(sh, n, "R"))

\* Offsets are opaque identities, so one labelling per shape is enough: the
\* records in use are 1..k, numbered in pre-order, each hanging from a
\* lower-numbered record, no two on the same side of the same parent.
IsShape(sh) ==
  /\ \A m \in Nodes \ {1} : sh.par[m] < m
  /\ \A m \in Nodes \ {1} : sh.par[m] = 0 => sh.side[m] = "L"
  /\ \A m, k \in Nodes \ {1} :
       (m # k /\ sh.par[m] # 0 /\ sh.par[m] = sh.par[k]) => sh.side[m] # sh.side[k]
  /\ \A m \in Nodes \ {1} : sh.par[m] = 0 => \A k \in Nodes \ {1} : sh.par[k] # m
  /\ LET pre == ShapePre(sh, 1) IN \A i \in 1..Len(pre) : pre[i] = i

Shapes == {sh \in ShapeCandidates : IsShape(sh)}

\* The well-formed tree of a shape: Parent agrees with the child links.
TreeOf(sh) ==
  [n \in Nodes |->
     VadRecord(ChildOf(sh, n, "L"), ChildOf(sh, n, "R"),
               IF n = 1 THEN 0 ELSE sh.par[n], StdStart(n), StdEnd(n))]

WellFormedTrees == {TreeOf(sh) : sh \in Shapes}

\* One corruption of a snapshot: a record that does not materialize, a record
\* with a bad tag, or one link of a record overwritten.
Unreadable(t) == {[t EXCEPT ![n].present = FALSE] : n \in Nodes}
BadTag(t) == {[t EXCEPT ![n].tagOK = FALSE] : n \in Nodes}
BadLink(t) ==
  {[t EXCEPT ![n].LeftChild = v] : n \in Nodes, v \in Refs}
  \cup {[t EXCEPT ![n].RightChild = v] : n \in Nodes, v \in Refs}
  \cup {[t EXCEPT ![n].Parent = v] : n \in Nodes, v \in Refs}


\* A record whose left or right child link points back at the record.
SelfLinked(t) ==
  {[t EXCEPT ![n].LeftChild = n] : n \in Nodes}
  \cup {[t EXCEPT ![n].RightChild = n] : n \in Nodes}

\* ------------------------------------------------------------------- state
VARIABLES
  plugin,    \* which plugin runs: "vadinfo", "vadtree", "vadwalk" or "vaddump"
  vads,      \* the snapshot: offset -> record
  tasks,     \* the processes filter_processes() yields, in order
  catalog,   \* the flag records the materializer may return for a node
  args,      \* the arguments VADDump is constructed with
  self,      \* the plugin object's fields (dump_dir, verbose)
  pc,        \* "construct", "tasks", "walk", "write", "done", "failed"
  ti,        \* index of the task the outer loop is at
  walk,      \* the traversal generator of the current task
  truncated, \* tasks whose traversal the cap cut off, with the visit count
  levels,    \* VADTree.render's levels dict
  visited,   \* per task, the references the loop body has received
  out,       \* what the last step wrote to outfd
  insp,      \* vadinfo: the node last inspected and the sections written
  handles,   \* destination files currently open
  files,     \* destination files: path -> bytes
  cur,       \* vaddump: the region whose file is open
  error      \* the exception that ended the run ("" while none)

vars == <<plugin, vads, tasks, catalog, args, self, pc, ti, walk, truncated,
          levels, visited, out, insp, handles, files, cur, error>>

None == -1                    \* Python's None where a number is expected
Line(kind, vals) == [kind |-> kind, vals |-> vals]
Stars == Line("stars", <<>>)
NoInsp == [ref |-> 0]
NoCur == [ref |-> 0]
NoWalk == [stack |-> <<>>, count |-> 0]

\* ------------------------------------------------------------------ walker
\* traverse(): a lazy pre-order enumeration of references, cut off once
\* MaxVisited references have been yielded.
Entry(r, via, d) == [ref |-> r, via |-> via, depth |-> d]

WalkStart(root) ==
  [stack |-> IF root = 0 THEN <<>> ELSE <<Entry(root, 0, 0)>>, count |-> 0]

\* The references a visited record contributes: its children, left first,
\* when the record materializes.
Children(v, h) ==
  LET rec == v[h.ref]
      kid(c) == IF c = 0 THEN <<>> ELSE <<Entry(c, h.ref, h.depth + 1)>>
  IN  IF rec.present THEN kid(rec.LeftChild) \o kid(rec.RightChild) ELSE <<>>

CountVisit(c) == c + 1

WalkCapped(w) == w.count >= MaxVisited

WalkAdvance(v, w) ==
  [stack |-> Children(v, Head(w.stack)) \o Tail(w.stack),
   count |-> CountVisit(w.count)]

\* Mutant: the cap is reported but the pending references are kept.
KeepStack(w) == w.stack

StackAfterTruncation(w) == <<>>

WalkTruncate(w) == [stack |-> StackAfterTruncation(w), count |-> w.count]

\* dict.get(key, default)
DictGet(d, k, default) == IF k \in DOMAIN d THEN d[k] ELSE default
DictSet(d, k, val) == (k :> val) @@ d

\* ---------------------------------------------------------- initial states
TaskRecord(i, root, phys, mapped) ==
  [UniqueProcessId |-> i, ImageFileName |-> i, obj_offset |-> i,
   VadRoot |-> root, phys |-> phys, mapped |-> mapped]

\* At most one process without a VAD tree, at most one whose control block
\* the translator does not resolve.
TaskLists(rootless, unresolved, mapped) ==
  {[i \in Tasks |-> TaskRecord(i, IF i = r THEN 0 ELSE 1,
                               IF i = u THEN None ELSE i, mapped)] :
     r \in rootless, u \in unresolved}

NoDir == "<None>"             \* None where a directory path is expected
NoArgs == [dump_dir |-> NoDir, session |-> FALSE, session_dump_dir |-> NoDir,
           verbose |-> FALSE]
NoSelf == [dump_dir |-> NoDir, verbose |-> FALSE]

Start(pl, snaps, tls, cat, as, startpc) ==
  /\ plugin = pl
  /\ vads \in snaps
  /\ tasks \in tls
  /\ catalog = cat
  /\ args \in as
  /\ self = NoSelf
  /\ pc = startpc
  /\ ti = 1
  /\ walk = NoWalk
  /\ truncated = {}
  /\ levels = <<>>
  /\ visited = [i \in Tasks |-> <<>>]
  /\ out = <<>>
  /\ insp = NoInsp
  /\ handles = {}
  /\ files = <<>>
  /\ cur = NoCur
  /\ error = ""

Corrupted ==
  WellFormedTrees
  \cup UNION {Unreadable(t) : t \in WellFormedTrees}
  \cup UNION {SelfLinked(t) : t \in WellFormedTrees}

InitTree ==
  Start("vadtree", Corrupted \cup UNION {BadLink(t) : t \in WellFormedTrees},
        TaskLists({0} \cup Tasks, {0}, {}), {}, {NoArgs}, "tasks")

\* ----------------------------------------------------------------- actions
\* The outer loop of a render(): the next task's header, and its traversal
\* started.  VADTree.render also starts a fresh levels dict.
BeginTask(pl, header) ==
  /\ plugin = pl
  /\ pc = "tasks"
  /\ ti <= NumTasks
  /\ out' = header
  /\ walk' = WalkStart(tasks[ti].VadRoot)
  /\ levels' = <<>>
  /\ insp' = NoInsp
  /\ pc' = "walk"
  /\ UNCHANGED <<plugin, vads, tasks, catalog, args, self, ti, truncated,
                 visited, handles, files, cur, error>>

\* The traversal of the current task is exhausted: on to the next task.
EndTask ==
  /\ pc = "walk"
  /\ walk.stack = <<>>
  /\ ti' = ti + 1
  /\ pc' = "tasks"
  /\ out' = <<>>
  /\ UNCHANGED <<plugin, vads, tasks, catalog, args, self, walk, truncated,
                 levels, visited, insp, handles, files, cur, error>>

\* The list of tasks is exhausted: render() returns.
Finish ==
  /\ pc = "tasks"
  /\ ti > NumTasks
  /\ pc' = "done"
  /\ out' = <<>>
  /\ UNCHANGED <<plugin, vads, tasks, catalog, args, self, ti, walk, truncated,
                 levels, visited, insp, handles, files, cur, error>>

\* The generator is asked for a reference past the cap: it reports the
\* truncation and ends.
Truncation ==
  /\ walk' = WalkTruncate(walk)
  /\ truncated' = truncated \cup {[task |-> ti, count |-> walk.count]}
  /\ out' = <<>>
  /\ UNCHANGED <<levels, visited, insp>>

\* "if vad:" on the dereferenced reference.
\* Mutant: the loop body runs without testing the dereferenced record.
MaterializesAlways(rec) == TRUE

Materializes(rec) == rec.present

Seen(h, ok, level) ==
  [ref |-> h.ref, via |-> h.via, depth |-> h.depth, ok |-> ok, level |-> level]

TreeHeader(task) == <<Stars, Line("Pid", <<task.UniqueProcessId>>)>>

\* Mutant: the depth of a node whose parent has no recorded depth is 1.
LevelOfFromZero(lv, rec) == DictGet(lv, rec.Parent, 0) + 1

LevelOf(lv, rec) == DictGet(lv, rec.Parent, -1) + 1

RecordLevel(lv, key, level) == DictSet(lv, key, level)

\* One iteration of VADTree.render's inner loop.
TreeVisit ==
  /\ plugin = "vadtree"
  /\ pc = "walk"
  /\ walk.stack # <<>>
  /\ IF WalkCapped(walk) THEN Truncation
     ELSE LET h == Head(walk.stack)
              rec == vads[h.ref]
              level == LevelOf(levels, rec)
          IN  /\ walk' = WalkAdvance(vads, walk)
              /\ IF Materializes(rec)
                 THEN /\ levels' = RecordLevel(levels, h.ref, level)
                      /\ out' = <<Line("node", <<level, rec.Start, rec.End>>)>>
                      /\ visited' = [visited EXCEPT ![ti] = Append(@, Seen(h, TRUE, level))]
                 ELSE /\ UNCHANGED levels
                      /\ out' = <<>>
                      /\ visited' = [visited EXCEPT ![ti] = Append(@, Seen(h, FALSE, None))]
              /\ UNCHANGED <<truncated, insp>>
  /\ UNCHANGED <<plugin, vads, tasks, catalog, args, self, pc, ti, handles,
                 files, cur, error>>

TreeBegin == BeginTask("vadtree", TreeHeader(tasks[ti]))



\* ----------------------------------------------------------------- vadwalk
InitWalk ==
  Start("vadwalk", Corrupted, TaskLists({0} \cup Tasks, {0}, {}), {}, {NoArgs},
        "tasks")

WalkHeader(task) ==
  <<Stars, Line("Pid", <<task.UniqueProcessId>>), Line("columns", <<>>)>>

WalkBegin == BeginTask("vadwalk", WalkHeader(tasks[ti]))

\* ptr.dereference().obj_offset or 0: a null or unreadable reference
\* dereferences to a NoneObject, whose attributes are falsy.
DerefOffsetOr0(v, ref) == IF ref # 0 /\ v[ref].present THEN ref ELSE 0

TagOf(rec) == IF rec.tagOK THEN 1 ELSE 0

WalkRow(v, ref) ==
  LET rec == v[ref]
  IN  Line("row", <<ref, rec.Parent, DerefOffsetOr0(v, rec.LeftChild),
                    DerefOffsetOr0(v, rec.RightChild), rec.Start, rec.End,
                    TagOf(rec)>>)

\* One iteration of VADWalk.render's inner loop.
WalkVisit ==
  /\ plugin = "vadwalk"
  /\ pc = "walk"
  /\ walk.stack # <<>>
  /\ IF WalkCapped(walk) THEN Truncation
     ELSE LET h == Head(walk.stack)
              rec == vads[h.ref]
          IN  /\ walk' = WalkAdvance(vads, walk)
              /\ out' = IF Materializes(rec) THEN <<WalkRow(vads, h.ref)>> ELSE <<>>
              /\ visited' = [visited EXCEPT ![ti] = Append(@, Seen(h, Materializes(rec), None))]
              /\ UNCHANGED <<truncated, levels, insp>>
  /\ UNCHANGED <<plugin, vads, tasks, catalog, args, self, pc, ti, handles,
                 files, cur, error>>

\* ----------------------------------------------------------------- vadinfo
\* hex(): "0x" and the digits, most significant first.
HexDigit == <<"0", "1", "2", "3", "4", "5", "6", "7", "8", "9",
              "a", "b", "c", "d", "e", "f">>

RECURSIVE HexDigits(_)
HexDigits(n) ==
  IF n < 16 THEN <<HexDigit[n + 1]>>
  ELSE HexDigits(n \div 16) \o <<HexDigit[(n % 16) + 1]>>

Hex(n) == <<"0x">> \o HexDigits(n)

\* Mutant: the labels are numbered from 1.
EnumerateFromOne(labels) == [i \in 1..Len(labels) |-> labels[i]]

\* dict(enumerate(labels)): index -> label, counted from 0.
Enumerate(labels) == [i \in 0..(Len(labels) - 1) |-> labels[i + 1]]

ProtectLabels ==
  <<
    "PAGE_NOACCESS",
    "PAGE_READONLY",
    "PAGE_EXECUTE",
    "PAGE_EXECUTE_READ",
    "PAGE_READWRITE",
    "PAGE_WRITECOPY",
    "PAGE_EXECUTE_READWRITE",
    "PAGE_EXECUTE_WRITECOPY",
    "PAGE_NOACCESS",
    "PAGE_NOCACHE | PAGE_READONLY",
    "PAGE_NOCACHE | PAGE_EXECUTE",
    "PAGE_NOCACHE | PAGE_EXECUTE_READ",
    "PAGE_NOCACHE | PAGE_READWRITE",
    "PAGE_NOCACHE | PAGE_WRITECOPY",
    "PAGE_NOCACHE | PAGE_EXECUTE_READWRITE",
    "PAGE_NOCACHE | PAGE_EXECUTE_WRITECOPY",
    "PAGE_NOACCESS",
    "PAGE_GUARD | PAGE_READONLY",
    "PAGE_GUARD | PAGE_EXECUTE",
    "PAGE_GUARD | PAGE_EXECUTE_READ",
    "PAGE_GUARD | PAGE_READWRITE",
    "PAGE_GUARD | PAGE_WRITECOPY",
    "PAGE_GUARD | PAGE_EXECUTE_READWRITE",
    "PAGE_GUARD | PAGE_EXECUTE_WRITECOPY",
    "PAGE_NOACCESS",
    "PAGE_WRITECOMBINE | PAGE_READONLY",
    "PAGE_WRITECOMBINE | PAGE_EXECUTE",
    "PAGE_WRITECOMBINE | PAGE_EXECUTE_READ",
    "PAGE_WRITECOMBINE | PAGE_READWRITE",
    "PAGE_WRITECOMBINE | PAGE_WRITECOPY",
    "PAGE_WRITECOMBINE | PAGE_EXECUTE_READWRITE",
    "PAGE_WRITECOMBINE | PAGE_EXECUTE_WRITECOPY">>

PROTECT_FLAGS == Enumerate(ProtectLabels)

VadTypeLabels ==
  <<
    "VadNone",
    "VadDevicePhysicalMemory",
    "VadImageMap",
    "VadAwe",
    "VadWriteWatch",
    "VadLargePages",
    "VadRotatePhysical",
    "VadLargePageSection">>

MI_VAD_TYPE == Enumerate(VadTypeLabels)

\* table.get(code, hex(code)), as the text written after the caption.
Decode(table, code) == IF code \in DOMAIN table THEN <<table[code]>> ELSE Hex(code)

DecodeProtection(code) == Decode(PROTECT_FLAGS, code)
DecodeVadType(code) == Decode(MI_VAD_TYPE, code)

TextLine(kind, text) == [kind |-> kind, text |-> text]

\* The flags of a materialized record.  VadType is None where the layout
\* has no such member; ControlArea and FilePointer are "null", "bad" (does
\* not resolve) or "ok".
Flags(long, private, ca, fp, prot, vtype) ==
  [long |-> long, PrivateMemory |-> private, ControlArea |-> ca,
   FilePointer |-> fp, Protection |-> prot, VadType |-> vtype]

ObjType(rec, fl) ==
  IF ~rec.tagOK THEN "_MMVAD"
  ELSE IF fl.long THEN "_MMVAD_LONG" ELSE "_MMVAD_SHORT"

\* write_vad_short
WriteVadShort(ref, rec, fl) ==
  <<Line("VAD node", <<ref, rec.Start, rec.End, TagOf(rec)>>),
    Line("Flags", <<fl.PrivateMemory, fl.Protection>>),
    TextLine("Protection", DecodeProtection(fl.Protection))>>
  \o (IF fl.VadType # None
      THEN <<TextLine("Vad Type", DecodeVadType(fl.VadType))>> ELSE <<>>)

ControlAreaLines ==
  <<Line("ControlArea", <<>>), Line("Dereference list", <<>>),
    Line("NumberOfSectionReferences", <<>>), Line("NumberOfMappedViews", <<>>),
    Line("WaitingForDeletion Event", <<>>), Line("Control Flags", <<>>)>>

\* Mutant: write_vad_control without its test of PrivateMemory.
IsPrivateNever(fl) == FALSE

IsPrivate(fl) == fl.PrivateMemory = 1

\* write_vad_control: the lines written, and whether vad.ControlArea was
\* evaluated.  A short record has no ControlArea member: evaluating it
\* raises AttributeError, which render() catches.
WriteVadControl(rec, fl) ==
  IF IsPrivate(fl) THEN [lines |-> <<>>, caRead |-> FALSE]
  ELSE IF ObjType(rec, fl) = "_MMVAD_SHORT" THEN [lines |-> <<>>, caRead |-> TRUE]
  ELSE IF fl.ControlArea # "ok" THEN [lines |-> <<>>, caRead |-> TRUE]
  ELSE [lines |-> ControlAreaLines \o
                  (IF fl.FilePointer = "ok" THEN <<Line("FileObject", <<>>)>> ELSE <<>>),
        caRead |-> TRUE]

\* write_vad_ext
WriteVadExt(rec, fl) ==
  IF ObjType(rec, fl) # "_MMVAD_SHORT"
  THEN <<Line("First prototype PTE", <<>>), Line("Flags2", <<>>)>>
  ELSE <<>>

Blank == Line("blank", <<>>)

InfoHeader(task) == <<Stars, Line("Pid", <<task.UniqueProcessId>>)>>

InfoBegin == BeginTask("vadinfo", InfoHeader(tasks[ti]))

\* One iteration of VADInfo.render's inner loop.
InfoVisit ==
  /\ plugin = "vadinfo"
  /\ pc = "walk"
  /\ walk.stack # <<>>
  /\ IF WalkCapped(walk) THEN Truncation
     ELSE LET h == Head(walk.stack)
              rec == vads[h.ref]
          IN  /\ walk' = WalkAdvance(vads, walk)
              /\ visited' = [visited EXCEPT ![ti] = Append(@, Seen(h, Materializes(rec), None))]
              /\ IF Materializes(rec)
                 THEN \E fl \in catalog :
                        LET short == WriteVadShort(h.ref, rec, fl)
                            control == WriteVadControl(rec, fl)
                            ext == WriteVadExt(rec, fl)
                        IN  /\ insp' = [ref |-> h.ref, flags |-> fl,
                                        obj_type |-> ObjType(rec, fl),
                                        short |-> short, control |-> control.lines,
                                        ext |-> ext, caRead |-> control.caRead]
                            /\ out' = short \o control.lines \o ext \o <<Blank>>
                 ELSE /\ insp' = NoInsp
                      /\ out' = <<Blank>>
              /\ UNCHANGED <<truncated, levels>>
  /\ UNCHANGED <<plugin, vads, tasks, catalog, args, self, pc, ti, handles,
                 files, cur, error>>

\* The flag records tried on the trees: a private short record and a
\* shared long one with a control area and a file object.
TreeFlags ==
  {Flags(FALSE, 1, "null", "null", 4, None), Flags(TRUE, 0, "ok", "ok", 4, 2)}

\* The flag records tried on a single node: both record shapes, private and
\* shared, every state of the control-area reference, and of the
\* file-object reference where a control area is there to hold it.
InfoFlags ==
  {Flags(long, private, ca, "null", 4, None) :
     long \in BOOLEAN, private \in {0, 1}, ca \in {"null", "bad", "ok"}}
  \cup {Flags(long, private, "ok", "ok", 4, None) :
          long \in BOOLEAN, private \in {0, 1}}

\* Every code of the two tables, and ExtraCodes codes past the end of each.
DecodeFlags ==
  {Flags(FALSE, 1, "null", "null", prot, vt) :
     prot \in 0..(31 + ExtraCodes), vt \in {None} \cup 0..(7 + ExtraCodes)}

Single == TreeOf([par |-> [m \in Nodes \ {1} |-> 0], side |-> [m \in Nodes \ {1} |-> "L"]])

InitInfo ==
  \/ Start("vadinfo", Corrupted \cup UNION {BadTag(t) : t \in WellFormedTrees},
           TaskLists({0} \cup Tasks, {0}, {}), TreeFlags, {NoArgs}, "tasks")
  \/ Start("vadinfo", {Single} \cup BadTag(Single), TaskLists({0}, {0}, {}),
           InfoFlags, {NoArgs}, "tasks")
  \/ Start("vadinfo", {Single}, TaskLists({0}, {0}, {}), DecodeFlags, {NoArgs},
           "tasks")

\* ----------------------------------------------------------------- vaddump
\* Values of a dump directory argument: None, the empty string, a path that
\* does not exist, a path to a regular file, a path to a directory.
DirValues == {NoDir, "", "/missing", "/file", "/dir"}

Truthy(d) == d \notin {NoDir, ""}
PyOr(a, b) == IF Truthy(a) THEN a ELSE b
IsDir(d) == d = "/dir"

DumpArgs(dirs, sessions, sdirs, verboses) ==
  {[dump_dir |-> d, session |-> s, session_dump_dir |-> sd, verbose |-> vb] :
     d \in dirs, s \in sessions, sd \in sdirs, vb \in verboses}

\* VADDump.__init__: the directory the object ends with.
ChosenDir(a) ==
  IF a.session THEN PyOr(a.dump_dir, a.session_dump_dir) ELSE a.dump_dir

\* Mutant: the directory is never tested with os.path.isdir.
ConstructErrorNoIsDir(d) == IF d = NoDir THEN "PluginError" ELSE ""

\* VADDump.__init__: the exception construction ends with ("" when none).
\* The module never imports debug, so reaching debug.error raises NameError.
ConstructError(d) ==
  IF d = NoDir THEN "PluginError"
  ELSE IF ~IsDir(d) THEN "NameError"
  ELSE ""

Construct ==
  /\ plugin = "vaddump"
  /\ pc = "construct"
  /\ LET d == ChosenDir(args)
         e == ConstructError(d)
     IN  /\ error' = e
         /\ self' = IF e = "" THEN [dump_dir |-> d, verbose |-> args.verbose]
                    ELSE [dump_dir |-> d, verbose |-> FALSE]
         /\ pc' = IF e = "" THEN "tasks" ELSE "failed"
  /\ out' = <<>>
  /\ UNCHANGED <<plugin, vads, tasks, catalog, args, ti, walk, truncated, levels,
                 visited, insp, handles, files, cur>>

\* The address space of a task: the byte the snapshot holds at a resident
\* address, and the page of an address.
ByteAt(a) == 1 + (a % 2)
PageOf(a) == a \div PageSize

\* zread(vaddr, length): length bytes, those of a page that is not resident
\* read as zero.
ZRead(mapped, vaddr, length) ==
  [i \in 1..length |->
     IF PageOf(vaddr + i - 1) \in mapped THEN ByteAt(vaddr + i - 1) ELSE 0]

\* The length VADDump.render asks zread for.
DumpLength(start, end) == end - start + 1

DumpPath(dir, task, start, end) ==
  [dir |-> dir, name |-> task.ImageFileName, offset |-> task.phys,
   start |-> start, end |-> end]

\* Mutant: "if not offset", which lets None through as long as 0 is absent.
UnresolvedIfZero(task) == task.phys = 0

\* "if offset is None" on the translated control-block address.
Unresolved(task) == task.phys = None

\* The outer loop of VADDump.render.
DumpBegin ==
  /\ plugin = "vaddump"
  /\ pc = "tasks"
  /\ ti <= NumTasks
  /\ LET task == tasks[ti]
         pid == Line("Pid", <<task.UniqueProcessId>>)
     IN  IF Unresolved(task)
         THEN /\ out' = <<pid, Line("Process does not have a valid address space.", <<>>)>>
              /\ ti' = ti + 1
              /\ UNCHANGED <<walk, pc>>
         ELSE /\ out' = <<pid, Stars>>
              /\ walk' = WalkStart(task.VadRoot)
              /\ pc' = "walk"
              /\ UNCHANGED ti
  /\ UNCHANGED <<plugin, vads, tasks, catalog, args, self, truncated, levels,
                 visited, insp, handles, files, cur, error>>

\* One iteration of VADDump.render's inner loop, up to open(path, 'wb').
DumpVisit ==
  /\ plugin = "vaddump"
  /\ pc = "walk"
  /\ walk.stack # <<>>
  /\ IF WalkCapped(walk)
     THEN /\ Truncation
          /\ UNCHANGED <<pc, handles, files, cur, error>>
     ELSE LET h == Head(walk.stack)
              rec == vads[h.ref]
              path == DumpPath(self.dump_dir, tasks[ti], rec.Start, rec.End)
          IN  /\ walk' = WalkAdvance(vads, walk)
              /\ visited' = [visited EXCEPT ![ti] = Append(@, Seen(h, Materializes(rec), None))]
              /\ out' = <<>>
              /\ UNCHANGED <<truncated, levels, insp>>
              /\ IF ~Materializes(rec) \/ ~rec.tagOK
                 THEN UNCHANGED <<pc, handles, files, cur, error>>
                 ELSE \E opens \in BOOLEAN :
                        IF opens
                        THEN /\ handles' = handles \cup {path}
                             /\ files' = DictSet(files, path, <<>>)
                             /\ cur' = [ref |-> h.ref, path |-> path,
                                        start |-> rec.Start, end |-> rec.End]
                             /\ pc' = "write"
                             /\ UNCHANGED error
                        ELSE /\ error' = "IOError"
                             /\ cur' = [ref |-> h.ref, path |-> path,
                                        start |-> rec.Start, end |-> rec.End]
                             /\ pc' = "failed"
                             /\ UNCHANGED <<handles, files>>
  /\ UNCHANGED <<plugin, vads, tasks, catalog, args, self, ti>>

\* Mutant: the file is closed only after a successful write.
CloseOnSuccess(hs, path, written) == IF written THEN hs \ {path} ELSE hs

\* Leaving the with block: the handle is closed however the block ends.
WithExit(hs, path, written) == hs \ {path}

\* The body of the with block: zread, the verbose message, f.write.
DumpWrite ==
  /\ plugin = "vaddump"
  /\ pc = "write"
  /\ LET range_data == ZRead(tasks[ti].mapped, cur.start, DumpLength(cur.start, cur.end))
     IN  \E written \in BOOLEAN :
           /\ handles' = WithExit(handles, cur.path, written)
           /\ out' = IF self.verbose THEN <<Line("Writing VAD", <<cur.start, cur.end>>)>>
                     ELSE <<>>
           /\ IF written
              THEN /\ files' = DictSet(files, cur.path, range_data)
                   /\ pc' = "walk"
                   /\ cur' = NoCur
                   /\ UNCHANGED error
              ELSE /\ error' = "IOError"
                   /\ pc' = "failed"
                   /\ UNCHANGED <<files, cur>>
  /\ UNCHANGED <<plugin, vads, tasks, catalog, args, self, ti, walk, truncated,
                 levels, visited, insp>>

QuietArgs == DumpArgs({"/dir"}, {FALSE}, {NoDir}, {FALSE})
AllArgs == DumpArgs(DirValues, BOOLEAN, {NoDir, "/file", "/dir"}, BOOLEAN)

\* A tree of one region with arbitrary bounds.
Regions == {[Single EXCEPT ![1].Start = s, ![1].End = e] : s \in Addrs, e \in Addrs}

\* Corrupt trees under valid arguments; every combination of arguments over
\* one region; every region and page table under valid arguments.
InitDump ==
  \/ Start("vaddump", Corrupted \cup UNION {BadTag(t) : t \in WellFormedTrees},
           TaskLists({0} \cup Tasks, {0}, {0}) \cup TaskLists({0}, Tasks, {0}),
           {}, QuietArgs, "construct")
  \/ Start("vaddump", {Single}, TaskLists({0}, {0}, {0}), {}, AllArgs, "construct")
  \/ \E m \in SUBSET Pages :
       Start("vaddump", Regions, TaskLists({0}, {0}, m), {}, QuietArgs, "construct")

Init == InitTree \/ InitWalk \/ InitInfo \/ InitDump

Next == TreeBegin \/ TreeVisit \/ WalkBegin \/ WalkVisit \/ InfoBegin \/ InfoVisit
        \/ Construct \/ DumpBegin \/ DumpVisit \/ DumpWrite
        \/ EndTask \/ Finish

Spec == Init /\ [][Next]_vars

FairSpec == Spec /\ WF_vars(Next)


\* ------------------------------------------------------------- properties
\* The references a complete traversal from root hands out: the pre-order of
\* the records reached through records that materialize, cut at MaxVisited.
RECURSIVE PreOrder(_, _, _)
PreOrder(v, r, fuel) ==
  IF r = 0 \/ fuel = 0 THEN <<>>
  ELSE <<r>> \o (IF v[r].present
                 THEN PreOrder(v, v[r].LeftChild, fuel - 1)
                      \o PreOrder(v, v[r].RightChild, fuel - 1)
                 ELSE <<>>)

ExpectedVisits(t) ==
  LET pre == PreOrder(vads, tasks[t].VadRoot, MaxVisited)
  IN  IF Len(pre) > MaxVisited THEN SubSeq(pre, 1, MaxVisited) ELSE pre

WalkOver(t) == ti > t \/ (ti = t /\ pc = "walk" /\ walk.stack = <<>>)
Terminated == pc \in {"done", "failed"}

\* Every node the traversal of task t has yielded so far, other than the
\* first, names in its Parent field the record whose child link led to it.
Linked(t) ==
  \A i \in 1..Len(visited[t]) :
    LET e == visited[t][i]
    IN  (e.ok /\ e.via # 0) => vads[e.ref].Parent = e.via

\* C1 as stated: in vadtree, whatever the tree, the depth printed for every
\* yielded node is the number of its ancestors the walk went through before
\* it, and the root has depth 0.
C1_DepthIsAncestorCount ==
  plugin = "vadtree" =>
    \A t \in Tasks : \A i \in 1..Len(visited[t]) :
      visited[t][i].ok => visited[t][i].level = visited[t][i].depth

\* C1 as amended: in vadtree, at every step of the traversal, the first
\* yielded node has depth 0, the depth of the record every pending reference
\* was reached from is already in the levels dict, and, as long as every
\* yielded node names in its Parent field the record it was reached from,
\* the depth of every yielded node is the number of its ancestors.
C1_DepthOfLinkedNodes ==
  plugin = "vadtree" =>
    \A t \in Tasks :
      /\ (visited[t] # <<>> /\ visited[t][1].ok) => visited[t][1].level = 0
      /\ (t = ti /\ pc = "walk") =>
           \A k \in 1..Len(walk.stack) :
             walk.stack[k].via # 0 => walk.stack[k].via \in DOMAIN levels
      /\ Linked(t) =>
           \A i \in 1..Len(visited[t]) :
             visited[t][i].ok => visited[t][i].level = visited[t][i].depth

\* C1 witness: a chain of three nodes has been printed at depths 0, 1, 2.
C1_Witness ==
  /\ plugin = "vadtree"
  /\ \E t \in Tasks :
       /\ Len(visited[t]) >= 3
       /\ Linked(t)
       /\ visited[t][3].ok /\ visited[t][3].level = 2 /\ visited[t][3].depth = 2

SelfReferential ==
  \E n \in Nodes : vads[n].LeftChild = n \/ vads[n].RightChild = n

\* C2: every run ends, also over a tree with a self-referential node; the
\* step that hits the cap records the truncation with the count of visited
\* references, ends that traversal and raises nothing.
C2_WalkTerminates ==
  /\ <>Terminated
  /\ [][(pc = "walk" /\ walk.stack # <<>> /\ WalkCapped(walk)) =>
          /\ [task |-> ti, count |-> walk.count] \in truncated'
          /\ walk'.stack = <<>>
          /\ error' = ""
          /\ pc' = "walk"]_vars

\* C2 witness: a run over a root that is its own child has ended, its
\* traversal truncated.
C2_Witness ==
  /\ pc = "done"
  /\ SelfReferential
  /\ tasks[1].VadRoot = 1
  /\ vads[1].LeftChild = 1
  /\ \E r \in truncated : r.task = 1

HasTree(t) == plugin = "vaddump" => tasks[t].phys # None

ExpectedRegions(t) ==
  {n \in Nodes : /\ \E i \in 1..Len(ExpectedVisits(t)) : ExpectedVisits(t)[i] = n
                 /\ vads[n].present /\ vads[n].tagOK}

ExpectedPaths ==
  UNION {{DumpPath(self.dump_dir, tasks[t], vads[n].Start, vads[n].End) :
            n \in ExpectedRegions(t)} :
         t \in {u \in Tasks : tasks[u].phys # None}}

\* A destination file that was written and closed.
Dumped(p) ==
  p \in DOMAIN files /\ p \notin handles /\ ~(error = "IOError" /\ cur.path = p)

ZeroWhereUnmapped(p) ==
  \A i \in 1..Len(files[p]) :
    LET a == p.start + i - 1
    IN  IF PageOf(a) \in tasks[p.name].mapped
        THEN files[p][i] = ByteAt(a) ELSE files[p][i] = 0

\* C4 as stated: every dumped file holds exactly end - start + 1 bytes,
\* also for a region with start > end, and the bytes of pages that are not
\* resident are zero.
C4_LengthIsEndMinusStartPlusOne ==
  plugin = "vaddump" =>
    \A p \in DOMAIN files :
      Dumped(p) => Len(files[p]) = p.end - p.start + 1 /\ ZeroWhereUnmapped(p)

\* What VADDump.render does instead: every dumped file holds exactly
\* end - start + 1 bytes when start <= end + 1 and no byte when start > end;
\* the bytes of pages that are not resident are zero and the others are the
\* snapshot's; a region with start > end raises nothing.
ZeroPaddedDump ==
  plugin = "vaddump" =>
    /\ \A p \in DOMAIN files :
         Dumped(p) => /\ Len(files[p]) = Max(0, p.end - p.start + 1)
                      /\ ZeroWhereUnmapped(p)
    /\ (pc = "write" /\ cur.start > cur.end) => error = ""

\* A file of two pages, the first resident and the second not, has been
\* written and closed.
ZeroPaddedDumpReached ==
  /\ plugin = "vaddump"
  /\ \E p \in DOMAIN files :
       /\ Dumped(p)
       /\ Len(files[p]) = 2 * PageSize
       /\ files[p][1] # 0
       /\ files[p][2 * PageSize] = 0

\* C5 as stated: once render() has ended on an I/O failure of one region,
\* every region of every resolved process has nevertheless been attempted.
C5_SiblingsStillAttempted ==
  (plugin = "vaddump" /\ pc = "failed" /\ error = "IOError") =>
    \A t \in Tasks :
      tasks[t].phys # None => Len(visited[t]) = Len(ExpectedVisits(t))

NoSpaceReport(t) ==
  <<Line("Pid", <<tasks[t].UniqueProcessId>>),
    Line("Process does not have a valid address space.", <<>>)>>

\* C6: vaddump never hands a node of an unresolved process to its loop body
\* and never writes a file for it; the step that meets such a process writes
\* the report and moves to the next process, touching nothing else; and a
\* run that ends without failure has written exactly the files of the
\* regions of the resolved processes.
C6_UnresolvedTaskSkipped ==
  /\ [](plugin = "vaddump" =>
          \A t \in Tasks : tasks[t].phys = None =>
            /\ visited[t] = <<>>
            /\ \A p \in DOMAIN files : p.name # tasks[t].ImageFileName)
  /\ []((plugin = "vaddump" /\ pc = "done") => DOMAIN files = ExpectedPaths)
  /\ [][(plugin = "vaddump" /\ pc = "tasks" /\ ti <= NumTasks /\ tasks[ti].phys = None) =>
          /\ out' = NoSpaceReport(ti)
          /\ ti' = ti + 1
          /\ pc' = "tasks"
          /\ UNCHANGED <<walk, visited, files, handles, error>>]_vars

\* C6 witness: the first process is unresolved, and the run has ended with
\* the regions of a later process dumped.
C6_Witness ==
  /\ plugin = "vaddump"
  /\ pc = "done"
  /\ tasks[1].phys = None
  /\ files # <<>>

NothingDone ==
  /\ ti = 1
  /\ walk = NoWalk
  /\ visited = [i \in Tasks |-> <<>>]
  /\ files = <<>>
  /\ handles = {}
  /\ truncated = {}

\* C7: once VADDump.__init__ has run, a directory that is not an existing
\* directory (none given, missing, or a regular file) means the run has
\* failed with the constructor's exception; and as long as the directory is
\* not known to be valid no process has been taken, no reference visited
\* and no file opened.
C7_BadDirFailsAtConstruction ==
  plugin = "vaddump" =>
    /\ (pc # "construct" /\ ~IsDir(self.dump_dir)) =>
         (pc = "failed" /\ error \in {"PluginError", "NameError"})
    /\ (pc # "construct" /\ ~args.session /\ args.dump_dir # "/dir") => pc = "failed"
    /\ (pc = "construct" \/ ~IsDir(self.dump_dir)) => NothingDone

\* C7 witness: construction has failed on a path that is a regular file.
C7_Witness ==
  /\ plugin = "vaddump"
  /\ pc = "failed"
  /\ args.dump_dir = "/file"
  /\ ~args.session
  /\ error # ""

HexDigitValue(c) == (CHOOSE i \in 1..16 : HexDigit[i] = c) - 1

RECURSIVE HexValue(_)
HexValue(ds) ==
  IF ds = <<>> THEN 0
  ELSE 16 * HexValue(SubSeq(ds, 1, Len(ds) - 1)) + HexDigitValue(ds[Len(ds)])

\* The text is the label a table holds for the code, or, for a code past
\* the table's end, "0x" and the hexadecimal digits of the code.
Decodes(text, labels, code) ==
  IF code \in 0..(Len(labels) - 1)
  THEN text = <<labels[code + 1]>>
  ELSE /\ Len(text) >= 2
       /\ text[1] = "0x"
       /\ HexValue(Tail(text)) = code

\* C8: the Protection line of every inspected node decodes its code through
\* the 32 labels, the Vad Type line (written when the layout has the member)
\* through the 8 labels, and a code past a table is shown in hexadecimal.
C8_DecodingIsTotal ==
  (plugin = "vadinfo" /\ insp.ref # 0) =>
    /\ Len(ProtectLabels) = 32 /\ Len(VadTypeLabels) = 8
    /\ insp.short[3].kind = "Protection"
    /\ Decodes(insp.short[3].text, ProtectLabels, insp.flags.Protection)
    /\ IF insp.flags.VadType = None THEN Len(insp.short) = 3
       ELSE /\ Len(insp.short) = 4
            /\ insp.short[4].kind = "Vad Type"
            /\ Decodes(insp.short[4].text, VadTypeLabels, insp.flags.VadType)

\* C8 witness: protection code 32 and VAD type code 8, the first codes past
\* the tables, have been written as 0x20 and 0x8.
C8_Witness ==
  /\ plugin = "vadinfo"
  /\ insp.ref # 0
  /\ insp.flags.Protection = 32
  /\ insp.flags.VadType = 8
  /\ insp.short[3].text = <<"0x", "2", "0">>
  /\ insp.short[4].text = <<"0x", "8">>

\* C9: for every inspected node, the Control Area section is written exactly
\* when the node is not private, its record has the member and the
\* reference resolves to a non-null control area; vad.ControlArea is not
\* evaluated for a private node; and whatever became of that section, the
\* short section is there and the extended one is there for every record
\* that is not short.
C9_ControlAreaOnlyWhenShared ==
  (plugin = "vadinfo" /\ insp.ref # 0) =>
    /\ (insp.control # <<>>) <=>
         (/\ insp.flags.PrivateMemory # 1
          /\ insp.obj_type # "_MMVAD_SHORT"
          /\ insp.flags.ControlArea = "ok")
    /\ insp.flags.PrivateMemory = 1 => ~insp.caRead
    /\ Len(insp.short) >= 3
    /\ (insp.ext # <<>>) <=> (insp.obj_type # "_MMVAD_SHORT")
    /\ out # <<>> => out = insp.short \o insp.control \o insp.ext \o <<Blank>>

\* C9 witness: a private long record with a non-null control area has been
\* inspected: no Control Area section, the extended section written.
C9_Witness ==
  /\ plugin = "vadinfo"
  /\ insp.ref # 0
  /\ insp.flags.PrivateMemory = 1
  /\ insp.flags.ControlArea = "ok"
  /\ insp.obj_type = "_MMVAD_LONG"
  /\ insp.control = <<>>
  /\ insp.ext # <<>>

\* C10: at most one destination file is open at any moment: the one of the
\* region being written, and none outside the with block, also after a
\* failed open or write; the file of the region being written was created
\* by the open, and every other file is closed.
C10_OneHandleAtATime ==
  /\ Cardinality(handles) <= 1
  /\ pc = "write" => (handles = {cur.path} /\ cur.path \in DOMAIN files)
  /\ pc # "write" => handles = {}

\* C10 witness: a file was opened, its write failed, and the run has ended
\* with no handle open.
C10_Witness ==
  /\ plugin = "vaddump"
  /\ pc = "failed"
  /\ error = "IOError"
  /\ cur.ref # 0
  /\ cur.path \in DOMAIN files
  /\ handles = {}

====
